---- MODULE Spec2Model ----
(***************************************************************************)
(* Model of the two experiment-runner plugin configurations of this        *)
(* repository:                                                             *)
(*   src/examples/llama_power/RunnerConfig.py      (specification Spec)    *)
(*   src/examples/powerjoular_test/RunnerConfig.py (specification SpecPJ)  *)
(*                                                                         *)
(* Units.  Python floats are modelled by integers:                         *)
(*   - every sample (utilisation in percent, power in watts) is kept in    *)
(*     millionths (12.5 % is 12500000, 0.5 W is 500000);                   *)
(*   - every reduced metric, which the code rounds with round(x, 3), is    *)
(*     kept in thousandths (2.5 J is 2500).                                *)
(* Energy counters are integers in microjoules, as in the interface file.  *)
(* Time is in clock units of 1/TimeResolution seconds; `now` is            *)
(* time.time() counted from the moment the run's start_run callback was    *)
(* entered.                                                                *)
(***************************************************************************)
EXTENDS Integers, Sequences, FiniteSets, TLC

(***************************************************************************)
(* Bounds of the model (not program constants).                            *)
(***************************************************************************)
\* Number of runs the host drives through the lifecycle.
MaxRuns == 2
\* Value at which a hardware energy counter wraps to 0 (microjoules).
MaxEnergyRange == 8000000
\* Wall time of one round trip of the GPU query tool (seconds).
GpuPollTime == 3
\* Number of direct calls of the energy readers in SpecReaders.
MaxCalls == 4
\* Number of times the machine's load level changes during one run.
MaxLoadChanges == 1
\* Clock units per second: time.time() is kept in milliseconds.
TimeResolution == 1000
\* Clock units a blocking call takes beyond the seconds it sleeps.
CallOverhead == 1
\* Number of runs the host drives through powerjoular_test's lifecycle.
MaxPJRuns == 1
\* Number of run directories the host hands out (context.run_dir).
MaxRunDirs == 2
\* Number of direct calls of log_run_data_to_csv in SpecCsv.
MaxCsvCalls == 3

(***************************************************************************)
(* Program constants.                                                      *)
(***************************************************************************)
\* llama_power: `(time.time() - start_time) < 10` in both sampling loops.
Budget == 10
\* psutil.cpu_percent(interval=1) and time.sleep(1): one second each.
Interval == 1
\* `/ 1e6`: microjoules to joules.
MicroPerUnit == 1000000
\* `/ 1e3` in monitor_gpu's energy.
GpuEnergyDivisor == 1000
\* round(x, 3): three decimal digits, i.e. thousandths.
RoundScale == 1000
\* Millionths per thousandth.
MicroPerMilli == MicroPerUnit \div RoundScale

Domains == {"pkg", "dram"}

(***************************************************************************)
(* Arithmetic helpers.                                                     *)
(***************************************************************************)
Abs(x) == IF x < 0 THEN -x ELSE x

RECURSIVE Sum(_)
Sum(s) == IF s = <<>> THEN 0 ELSE Head(s) + Sum(Tail(s))

RECURSIVE BitLength(_)
BitLength(n) == IF n = 0 THEN 0 ELSE 1 + BitLength(n \div 2)

(***************************************************************************)
(* Binary long division of r/B (0 <= r < B), producing `bits` further      *)
(* significand bits, then rounding to nearest, ties to even, as IEEE-754   *)
(* double division does.  Leading zero bits before the first 1 do not      *)
(* count as significand bits.  The result is the sign of                   *)
(* (rounded quotient - exact quotient): 1 rounded up, -1 rounded down,     *)
(* 0 exact.                                                                *)
(***************************************************************************)
RECURSIVE DivisionTail(_, _, _, _, _)
DivisionTail(r, B, bits, started, lastOdd) ==
    IF r = 0 THEN 0
    ELSE IF bits = 0
         THEN IF 2 * r > B THEN 1
              ELSE IF 2 * r < B THEN -1
              ELSE IF lastOdd THEN 1 ELSE -1
         ELSE LET bit == 2 * r >= B
                  r2  == IF bit THEN 2 * r - B ELSE 2 * r
              IN  IF bit \/ started
                  THEN DivisionTail(r2, B, bits - 1, TRUE, bit)
                  ELSE DivisionTail(r2, B, bits, FALSE, FALSE)

\* Sign of fl(A / B) - A / B for the double division of two non-negative
\* integers (B > 0), each exactly representable as a double.
FloatErrSign(A, B) ==
    LET q == A \div B
        n == BitLength(q)
    IN  DivisionTail(A % B, B, 53 - n, n > 0, q % 2 = 1)

(***************************************************************************)
(* Python's round(x, 3) of the double x = fl(a / (RoundScale * b)),        *)
(* returned in thousandths.  round() rounds the exact binary value of x    *)
(* to the nearest thousandth, exact ties to the even neighbour; when       *)
(* a / b lies exactly half way between two integers, the side x lies on    *)
(* is the sign of the division's rounding error.                           *)
(***************************************************************************)
Round3(a, b) ==
    LET m    == Abs(a)
        q    == m \div b
        rem  == m % b
        dir  == FloatErrSign(m, RoundScale * b)
        up   == IF 2 * rem > b THEN TRUE
                ELSE IF 2 * rem < b THEN FALSE
                ELSE IF dir > 0 THEN TRUE
                ELSE IF dir < 0 THEN FALSE
                ELSE q % 2 = 1
        mag  == IF up THEN q + 1 ELSE q
    IN  IF a < 0 THEN -mag ELSE mag


(***************************************************************************)
(* Environment of the llama_power variant.                                 *)
(***************************************************************************)
\* Load level of the machine; it decides what every reader observes.
Loads == {"low", "high"}
\* psutil.cpu_percent(interval=1), psutil.virtual_memory().percent (millionths
\* of a percent).
CpuPercent == [low |-> 12500000, high |-> 50000000]
MemPercent == [low |-> 25000000, high |-> 62500000]
\* Microjoules a domain's counter gains per second.
EnergyRate == [pkg  |-> [low |-> 15625, high |-> 500000],
               dram |-> [low |-> 31250, high |-> 250000]]
\* Counter values a run can find in the interface file when it starts.
InitEnergy == {1000000, MaxEnergyRange - 500000}
\* Output of one successful GPU query: one <<power, utilisation>> line per
\* GPU (millionths of a watt, of a percent).
GpuOutput == [low  |-> << <<100000000, 25000000>> >>,
              high |-> << <<150000000, 75000000>>, <<50000000, 12500000>> >>]
\* How one invocation of the GPU query tool can end.
GpuOutcomes == {"ok", "not_found", "exit_nonzero", "malformed"}

\* Messages the code prints.
Messages == {"rapl_cpu", "rapl_mem", "rapl_energy", "gpu_not_found", "gpu_error"}

Readers == {"get_cpu_power", "get_memory_power"}

ZeroMcm == [avg_cpu |-> 0, avg_mem |-> 0, avg_cpu_power |-> 0, avg_mem_power |-> 0,
            cpu_energy_usage |-> 0, mem_energy_usage |-> 0]
ZeroGpu == [avg_gpu_power |-> 0, avg_gpu_utilization |-> 0, gpu_energy_usage |-> 0]

\* data_columns of create_run_table_model.
DataColumns ==
    {"avg_cpu_utilization", "avg_mem_utilization", "avg_cpu_power",
     "avg_mem_power", "cpu_energy_usage", "mem_energy_usage",
     "avg_gpu_power", "avg_gpu_utilization", "gpu_energy_usage"}

\* powerjoular_test: data_columns of create_run_table_model, in order.
PJDataColumns ==
    <<"avg_cpu_utilization", "avg_cpu_power", "total_cpu_energy",
      "avg_gpu_utilization", "avg_gpu_power", "total_gpu_energy">>

VARIABLES
    pc,                  \* position of the thread driving the run
    run,                 \* number of runs started so far
    process,             \* self.process: "none", "alive", "zombie", "reaped"
    orphans,             \* workloads of earlier runs no Popen object refers to
    rapl_error_printed,  \* self.rapl_error_printed
    printed,             \* how often each message was printed
    rapl_present,        \* per domain: does the energy_uj file exist
    energy_uj,           \* per domain: the counter's current value
    load,                \* current load level of the machine
    load_changes,        \* load changes so far in this run
    now,                 \* time.time(), seconds since start_run was entered
    start_time,          \* start_time of the loop being executed
    cpu_usage, memory_usage, cpu_power_usage, mem_power_usage,
    initial_cpu_energy, initial_mem_energy,
    final_cpu_energy, final_mem_energy,
    mcm_result,          \* value returned by monitor_cpu_memory
    gpu_utilization, gpu_power_usage,
    gpu_polls,           \* invocations of the GPU query tool in this run
    gpu_status,          \* how the latest invocation ended ("none" before it)
    gpu_result,          \* value returned by monitor_gpu
    run_data,            \* context.run_data of the current run
    returned,            \* what populate_run_data handed to the host
    calls,               \* SpecReaders: the direct reader calls made so far
    \* powerjoular_test
    pj_pc,               \* position of the thread driving the run
    pj_run,              \* number of runs started so far
    target,              \* self.target: "none", "alive", "zombie", "reaped"
    profiler,            \* self.profiler: "none", "alive", "zombie", "reaped"
    pj_now,              \* time.time(), clock units since start_run was entered
    pj_start_time,       \* interact's start_time
    events,              \* what the supervisor did to its processes in this run
    run_dir,             \* context.run_dir of the current run
    files,               \* per run directory: its run_table.csv
    df,                  \* the profiler CSV as read by populate_run_data
    pj_returned,         \* what populate_run_data handed to the host
    run_data_list,       \* self.run_data_list
    csv_log              \* SpecCsv: the run_data of the direct calls so far

envVars   == <<rapl_present, energy_uj, load, load_changes>>
mcmLocals == <<cpu_usage, memory_usage, cpu_power_usage, mem_power_usage,
               initial_cpu_energy, initial_mem_energy,
               final_cpu_energy, final_mem_energy>>
gpuLocals == <<gpu_utilization, gpu_power_usage>>
llamaVars == <<pc, run, process, orphans, rapl_error_printed, printed,
               envVars, now, start_time, mcmLocals, mcm_result, gpuLocals,
               gpu_polls, gpu_status, gpu_result, run_data, returned, calls>>

pjData == <<run_dir, files, df, pj_returned, run_data_list, csv_log>>
pjVars == <<pj_pc, pj_run, target, profiler, pj_now, pj_start_time, events,
            pjData>>

vars == <<llamaVars, pjVars>>

\* Clock units that pass while the thread blocks for `seconds` seconds.
Blocking(seconds) ==
    IF seconds = 0 THEN 0 ELSE seconds * TimeResolution + CallOverhead

\* The counter of domain d after `seconds` more seconds at load L.
Advance(c, d, L, seconds) == (c + EnergyRate[d][L] * seconds) % MaxEnergyRange

AdvanceAll(seconds) ==
    [d \in Domains |-> IF rapl_present[d]
                       THEN Advance(energy_uj[d], d, load, seconds)
                       ELSE energy_uj[d]]

Emit(msg) == [printed EXCEPT ![msg] = @ + 1]

(***************************************************************************)
(* get_cpu_power / get_memory_power.  Given whether the domain's file      *)
(* exists, the two values read one second apart and the warning flag, the  *)
(* value returned (millionths of a watt), whether the warning is printed   *)
(* by this call, and the flag afterwards.                                  *)
(***************************************************************************)
\* Mutant: the except branch never sets rapl_error_printed.
get_cpu_power_FlagNotSet(present, energy_start, energy_end, flag) ==
    IF present
    THEN [ret |-> energy_end - energy_start, warned |-> FALSE, flag |-> flag]
    ELSE [ret |-> 0, warned |-> ~flag, flag |-> flag]

get_cpu_power(present, energy_start, energy_end, flag) ==
    IF present
    THEN [ret |-> energy_end - energy_start, warned |-> FALSE, flag |-> flag]
    ELSE [ret |-> 0, warned |-> ~flag, flag |-> TRUE]

get_memory_power(present, energy_start, energy_end, flag) ==
    IF present
    THEN [ret |-> energy_end - energy_start, warned |-> FALSE, flag |-> flag]
    ELSE [ret |-> 0, warned |-> ~flag, flag |-> TRUE]

\* Mutant: the sum is not divided by the number of samples.
Mean3_Sum(series) ==
    IF series = <<>> THEN 0
    ELSE Round3(Sum(series), MicroPerMilli)

\* round(sum(series) / len(series), 3) if series else 0
Mean3(series) ==
    IF series = <<>> THEN 0
    ELSE Round3(Sum(series), MicroPerMilli * Len(series))

\* Mutant: the delta is truncated to whole millijoules instead of rounded.
EnergyJoules3_Truncated(final, initial) == (final - initial) \div MicroPerMilli

\* round((final - initial) / 1e6, 3)
EnergyJoules3(final, initial) == Round3(final - initial, MicroPerMilli)

\* Mutant: the sum is rounded without the division by 1e3.
GpuEnergy3_NoDivisor(series) == Round3(Sum(series), MicroPerMilli)

\* round(sum(gpu_power_usage) / 1e3, 3)
GpuEnergy3(series) ==
    Round3(Sum(series), MicroPerMilli * GpuEnergyDivisor)

\* Popen.poll(): an exited child is reaped by the poll that finds it.
Polled(p) == IF p = "zombie" THEN "reaped" ELSE p

InitCommon ==
    /\ pc = "idle"
    /\ run = 0
    /\ process = "none"
    /\ orphans = 0
    /\ rapl_error_printed = FALSE
    /\ printed = [m \in Messages |-> 0]
    /\ rapl_present \in [Domains -> BOOLEAN]
    /\ load = "low"
    /\ load_changes = 0
    /\ now = 0
    /\ start_time = 0
    /\ cpu_usage = <<>> /\ memory_usage = <<>>
    /\ cpu_power_usage = <<>> /\ mem_power_usage = <<>>
    /\ initial_cpu_energy = 0 /\ initial_mem_energy = 0
    /\ final_cpu_energy = 0 /\ final_mem_energy = 0
    /\ mcm_result = ZeroMcm
    /\ gpu_utilization = <<>> /\ gpu_power_usage = <<>>
    /\ gpu_polls = 0
    /\ gpu_status = "none"
    /\ gpu_result = ZeroGpu
    /\ run_data = <<>>
    /\ returned = <<>>
    /\ calls = <<>>
    /\ pj_pc = "idle"
    /\ pj_run = 0
    /\ target = "none"
    /\ profiler = "none"
    /\ pj_now = 0
    /\ pj_start_time = 0
    /\ events = <<>>
    /\ run_dir = 1
    /\ files = [d \in 1..MaxRunDirs |-> [exists |-> FALSE, lines |-> <<>>]]
    /\ df = <<>>
    /\ pj_returned = <<>>
    /\ run_data_list = <<>>
    /\ csv_log = <<>>

\* The values the interface files can hold: 0 stands for a file that does
\* not exist.
CounterValues ==
    {e \in [Domains -> InitEnergy \cup {0}] :
        \A d \in Domains : (e[d] = 0) <=> ~rapl_present[d]}

\* The state after RunnerConfig.__init__; the host has started no run yet.
Init ==
    /\ InitCommon
    /\ energy_uj = [d \in Domains |-> 0]

(***************************************************************************)
(* The environment: the workload may exit at any moment; the load of the   *)
(* machine may change between two samples.                                 *)
(***************************************************************************)
WorkloadExit ==
    /\ process = "alive"
    /\ process' = "zombie"
    /\ UNCHANGED <<pc, run, orphans, rapl_error_printed, printed, envVars, now,
                   start_time, mcmLocals, mcm_result, gpuLocals, gpu_polls, gpu_status,
                   gpu_result, run_data, returned, calls, pjVars>>

\* The load level a reader finds: the current one, or another one while
\* the run has load changes left.
ObservableLoads ==
    IF load_changes < MaxLoadChanges THEN Loads ELSE {load}

LoadChanges(L) == IF L = load THEN load_changes ELSE load_changes + 1

(***************************************************************************)
(* start_run -> monitor_usage: launch the workload.                        *)
(***************************************************************************)
StartRun ==
    /\ pc = "idle"
    /\ run < MaxRuns
    /\ run' = run + 1
    /\ orphans' = IF process = "alive" THEN orphans + 1 ELSE orphans
    /\ process' = "alive"
    /\ now' = 0
    /\ load' \in Loads
    /\ load_changes' = 0
    /\ energy_uj' \in CounterValues
    /\ run_data' = <<>>
    /\ returned' = <<>>
    /\ mcm_result' = ZeroMcm
    /\ gpu_result' = ZeroGpu
    /\ gpu_polls' = 0
    /\ gpu_status' = "none"
    /\ pc' = "mcm_init"
    /\ UNCHANGED <<rapl_error_printed, printed, rapl_present, start_time,
                   mcmLocals, gpuLocals, calls, pjVars>>

(***************************************************************************)
(* monitor_cpu_memory.                                                     *)
(***************************************************************************)
McmInitialRead ==
    /\ pc = "mcm_init"
    /\ IF \A d \in Domains : rapl_present[d]
       THEN /\ initial_cpu_energy' = energy_uj["pkg"]
            /\ initial_mem_energy' = energy_uj["dram"]
            /\ UNCHANGED <<rapl_error_printed, printed>>
       ELSE /\ initial_cpu_energy' = 0
            /\ initial_mem_energy' = 0
            /\ rapl_error_printed' = TRUE
            /\ printed' = IF rapl_error_printed THEN printed ELSE Emit("rapl_energy")
    /\ start_time' = now
    /\ pc' = "mcm_check"
    /\ UNCHANGED <<run, process, orphans, envVars, now, cpu_usage, memory_usage,
                   cpu_power_usage, mem_power_usage, final_cpu_energy,
                   final_mem_energy, mcm_result, gpuLocals, gpu_polls, gpu_status,
                   gpu_result, run_data, returned, calls, pjVars>>

\* Mutant: the loop condition without its time budget.
LoopCondition_NoBudget(p, elapsed) == p = "alive"

\* while self.process.poll() is None and (time.time() - start_time) < 10
LoopCondition(p, elapsed) == p = "alive" /\ elapsed < Budget * TimeResolution

McmLoopCheck ==
    /\ pc = "mcm_check"
    /\ process' = Polled(process)
    /\ pc' = IF LoopCondition(process, now - start_time)
             THEN "mcm_cpu" ELSE "mcm_final"
    /\ UNCHANGED <<run, orphans, rapl_error_printed, printed, envVars, now,
                   start_time, mcmLocals, mcm_result, gpuLocals, gpu_polls, gpu_status,
                   gpu_result, run_data, returned, calls, pjVars>>

McmSampleUtil ==
    /\ pc = "mcm_cpu"
    /\ \E L \in ObservableLoads :
         /\ load' = L
         /\ load_changes' = LoadChanges(L)
         /\ energy_uj' = [d \in Domains |->
                            IF rapl_present[d]
                            THEN Advance(energy_uj[d], d, L, Interval)
                            ELSE energy_uj[d]]
         /\ cpu_usage' = Append(cpu_usage, CpuPercent[L])
         /\ memory_usage' = Append(memory_usage, MemPercent[L])
    /\ now' = now + Blocking(Interval)
    /\ pc' = "mcm_cpu_power"
    /\ UNCHANGED <<run, process, orphans, rapl_error_printed, printed,
                   rapl_present, start_time,
                   cpu_power_usage, mem_power_usage, initial_cpu_energy,
                   initial_mem_energy, final_cpu_energy, final_mem_energy,
                   mcm_result, gpuLocals, gpu_polls, gpu_status, gpu_result, run_data,
                   returned, calls, pjVars>>

\* The seconds a reader blocks: time.sleep(1) lies between the two reads, so
\* a reader whose first open fails returns at once.
ReaderTime(d) == IF rapl_present[d] THEN Interval ELSE 0

\* Mutant: a 0.0 returned by the reader is not appended to the series.
McmCpuPower_SkipsUnavailable ==
    /\ pc = "mcm_cpu_power"
    /\ LET t == ReaderTime("pkg")
           r == get_cpu_power(rapl_present["pkg"], energy_uj["pkg"],
                              AdvanceAll(t)["pkg"], rapl_error_printed)
       IN  /\ now' = now + Blocking(t)
           /\ energy_uj' = AdvanceAll(t)
           /\ cpu_power_usage' = IF r.ret = 0 THEN cpu_power_usage
                                 ELSE Append(cpu_power_usage, r.ret)
           /\ rapl_error_printed' = r.flag
           /\ printed' = IF r.warned THEN Emit("rapl_cpu") ELSE printed
    /\ pc' = "mcm_mem_power"
    /\ UNCHANGED <<run, process, orphans, rapl_present, load, load_changes,
                   start_time, cpu_usage, memory_usage, mem_power_usage,
                   initial_cpu_energy, initial_mem_energy, final_cpu_energy,
                   final_mem_energy, mcm_result, gpuLocals, gpu_polls, gpu_status,
                   gpu_result, run_data, returned, calls, pjVars>>

McmCpuPower ==
    /\ pc = "mcm_cpu_power"
    /\ LET t == ReaderTime("pkg")
           r == get_cpu_power(rapl_present["pkg"], energy_uj["pkg"],
                              AdvanceAll(t)["pkg"], rapl_error_printed)
       IN  /\ now' = now + Blocking(t)
           /\ energy_uj' = AdvanceAll(t)
           /\ cpu_power_usage' = Append(cpu_power_usage, r.ret)
           /\ rapl_error_printed' = r.flag
           /\ printed' = IF r.warned THEN Emit("rapl_cpu") ELSE printed
    /\ pc' = "mcm_mem_power"
    /\ UNCHANGED <<run, process, orphans, rapl_present, load, load_changes,
                   start_time, cpu_usage, memory_usage, mem_power_usage,
                   initial_cpu_energy, initial_mem_energy, final_cpu_energy,
                   final_mem_energy, mcm_result, gpuLocals, gpu_polls, gpu_status,
                   gpu_result, run_data, returned, calls, pjVars>>

McmMemPower ==
    /\ pc = "mcm_mem_power"
    /\ LET t == ReaderTime("dram")
           r == get_memory_power(rapl_present["dram"], energy_uj["dram"],
                                 AdvanceAll(t)["dram"], rapl_error_printed)
       IN  /\ now' = now + Blocking(t)
           /\ energy_uj' = AdvanceAll(t)
           /\ mem_power_usage' = Append(mem_power_usage, r.ret)
           /\ rapl_error_printed' = r.flag
           /\ printed' = IF r.warned THEN Emit("rapl_mem") ELSE printed
    /\ pc' = "mcm_check"
    /\ UNCHANGED <<run, process, orphans, rapl_present, load, load_changes,
                   start_time, cpu_usage, memory_usage, cpu_power_usage,
                   initial_cpu_energy, initial_mem_energy, final_cpu_energy,
                   final_mem_energy, mcm_result, gpuLocals, gpu_polls, gpu_status,
                   gpu_result, run_data, returned, calls, pjVars>>

McmFinalRead ==
    /\ pc = "mcm_final"
    /\ IF \A d \in Domains : rapl_present[d]
       THEN /\ final_cpu_energy' = energy_uj["pkg"]
            /\ final_mem_energy' = energy_uj["dram"]
            /\ UNCHANGED <<rapl_error_printed, printed>>
       ELSE /\ final_cpu_energy' = initial_cpu_energy
            /\ final_mem_energy' = initial_mem_energy
            /\ rapl_error_printed' = TRUE
            /\ printed' = IF rapl_error_printed THEN printed ELSE Emit("rapl_energy")
    /\ pc' = "mcm_reduce"
    /\ UNCHANGED <<run, process, orphans, envVars, now, start_time, cpu_usage,
                   memory_usage, cpu_power_usage, mem_power_usage,
                   initial_cpu_energy, initial_mem_energy, mcm_result,
                   gpuLocals, gpu_polls, gpu_status, gpu_result, run_data, returned, calls, pjVars>>

\* Mutant: the means are computed without the `if series else 0` guards, so
\* that an empty series raises ZeroDivisionError.
McmReduce_Unguarded ==
    /\ pc = "mcm_reduce"
    /\ IF cpu_usage = <<>> \/ memory_usage = <<>>
          \/ cpu_power_usage = <<>> \/ mem_power_usage = <<>>
       THEN /\ pc' = "raised"
            /\ UNCHANGED mcm_result
       ELSE /\ pc' = "mcm_return"
            /\ mcm_result' =
                 [avg_cpu          |-> Mean3(cpu_usage),
                  avg_mem          |-> Mean3(memory_usage),
                  avg_cpu_power    |-> Mean3(cpu_power_usage),
                  avg_mem_power    |-> Mean3(mem_power_usage),
                  cpu_energy_usage |->
                      EnergyJoules3(final_cpu_energy, initial_cpu_energy),
                  mem_energy_usage |->
                      EnergyJoules3(final_mem_energy, initial_mem_energy)]
    /\ UNCHANGED <<run, process, orphans, rapl_error_printed, printed, envVars,
                   now, start_time, mcmLocals, gpuLocals, gpu_polls, gpu_status,
                   gpu_result, run_data, returned, calls, pjVars>>

McmReduce ==
    /\ pc = "mcm_reduce"
    /\ mcm_result' =
         [avg_cpu          |-> Mean3(cpu_usage),
          avg_mem          |-> Mean3(memory_usage),
          avg_cpu_power    |-> Mean3(cpu_power_usage),
          avg_mem_power    |-> Mean3(mem_power_usage),
          cpu_energy_usage |-> EnergyJoules3(final_cpu_energy, initial_cpu_energy),
          mem_energy_usage |-> EnergyJoules3(final_mem_energy, initial_mem_energy)]
    /\ pc' = "mcm_return"
    /\ UNCHANGED <<run, process, orphans, rapl_error_printed, printed, envVars,
                   now, start_time, mcmLocals, gpuLocals, gpu_polls, gpu_status, gpu_result,
                   run_data, returned, calls, pjVars>>

\* Mutant: monitor_gpu keeps measuring its budget from the start_time of
\* monitor_cpu_memory's loop.
McmReturn_SharedBudget ==
    /\ pc = "mcm_return"
    /\ cpu_usage' = <<>> /\ memory_usage' = <<>>
    /\ cpu_power_usage' = <<>> /\ mem_power_usage' = <<>>
    /\ initial_cpu_energy' = 0 /\ initial_mem_energy' = 0
    /\ final_cpu_energy' = 0 /\ final_mem_energy' = 0
    /\ gpu_utilization' = <<>> /\ gpu_power_usage' = <<>>
    /\ pc' = "gpu_check"
    /\ UNCHANGED <<run, process, orphans, rapl_error_printed, printed, envVars,
                   now, start_time, mcm_result, gpu_polls, gpu_status, gpu_result,
                   run_data, returned, calls, pjVars>>

\* monitor_cpu_memory returns (its locals are gone) and monitor_gpu begins.
McmReturn ==
    /\ pc = "mcm_return"
    /\ cpu_usage' = <<>> /\ memory_usage' = <<>>
    /\ cpu_power_usage' = <<>> /\ mem_power_usage' = <<>>
    /\ initial_cpu_energy' = 0 /\ initial_mem_energy' = 0
    /\ final_cpu_energy' = 0 /\ final_mem_energy' = 0
    /\ gpu_utilization' = <<>> /\ gpu_power_usage' = <<>>
    /\ start_time' = now
    /\ pc' = "gpu_check"
    /\ UNCHANGED <<run, process, orphans, rapl_error_printed, printed, envVars,
                   now, mcm_result, gpu_polls, gpu_status, gpu_result, run_data,
                   returned, calls, pjVars>>

(***************************************************************************)
(* monitor_gpu.                                                            *)
(***************************************************************************)
GpuLoopCheck ==
    /\ pc = "gpu_check"
    /\ process' = Polled(process)
    /\ pc' = IF LoopCondition(process, now - start_time)
             THEN "gpu_poll" ELSE "gpu_reduce"
    /\ UNCHANGED <<run, orphans, rapl_error_printed, printed, envVars, now,
                   start_time, mcmLocals, mcm_result, gpuLocals, gpu_polls, gpu_status,
                   gpu_result, run_data, returned, calls, pjVars>>

RECURSIVE Column(_, _)
Column(lines, i) ==
    IF lines = <<>> THEN <<>> ELSE <<Head(lines)[i]>> \o Column(Tail(lines), i)

\* One pass of the loop body: the query tool is invoked once.
GpuPollOk ==
    /\ \E L \in ObservableLoads :
         /\ load' = L
         /\ load_changes' = LoadChanges(L)
         /\ gpu_power_usage' = gpu_power_usage \o Column(GpuOutput[L], 1)
         /\ gpu_utilization' = gpu_utilization \o Column(GpuOutput[L], 2)
    /\ pc' = "gpu_check"
    /\ UNCHANGED <<printed, gpu_result>>

\* Mutant: the except clauses leave the loop and reduce what was collected.
GpuPollFails_KeepsSamples(msg) ==
    /\ printed' = Emit(msg)
    /\ gpu_result' =
         [gpu_energy_usage    |-> GpuEnergy3(gpu_power_usage),
          avg_gpu_power       |-> Mean3(gpu_power_usage),
          avg_gpu_utilization |-> Mean3(gpu_utilization)]
    /\ pc' = "gpu_return"
    /\ UNCHANGED <<gpuLocals, load, load_changes>>

\* except FileNotFoundError / except subprocess.CalledProcessError
GpuPollFails(msg) ==
    /\ printed' = Emit(msg)
    /\ gpu_result' = ZeroGpu
    /\ pc' = "gpu_return"
    /\ UNCHANGED <<gpuLocals, load, load_changes>>

\* A line that does not split into two numbers: ValueError, which no except
\* clause of monitor_gpu catches.
GpuPollRaises ==
    /\ pc' = "raised"
    /\ UNCHANGED <<printed, gpu_result, gpuLocals, load, load_changes>>

GpuPoll ==
    /\ pc = "gpu_poll"
    /\ now' = now + Blocking(GpuPollTime)
    /\ gpu_polls' = gpu_polls + 1
    /\ \E outcome \in GpuOutcomes :
         /\ gpu_status' = outcome
         /\ CASE outcome = "ok"           -> GpuPollOk
              [] outcome = "not_found"    -> GpuPollFails("gpu_not_found")
              [] outcome = "exit_nonzero" -> GpuPollFails("gpu_error")
              [] outcome = "malformed"    -> GpuPollRaises
    /\ UNCHANGED <<run, process, orphans, rapl_error_printed, rapl_present,
                   energy_uj, start_time, mcmLocals, mcm_result, run_data,
                   returned, calls, pjVars>>

GpuReduce ==
    /\ pc = "gpu_reduce"
    /\ gpu_result' =
         [gpu_energy_usage    |-> GpuEnergy3(gpu_power_usage),
          avg_gpu_power       |-> Mean3(gpu_power_usage),
          avg_gpu_utilization |-> Mean3(gpu_utilization)]
    /\ pc' = "gpu_return"
    /\ UNCHANGED <<run, process, orphans, rapl_error_printed, printed, envVars,
                   now, start_time, mcmLocals, mcm_result, gpuLocals, gpu_polls, gpu_status,
                   run_data, returned, calls, pjVars>>

\* monitor_gpu and monitor_usage return; start_run stores context.run_data.
MonitorUsageReturn ==
    /\ pc = "gpu_return"
    /\ run_data' =
         [avg_cpu_utilization |-> mcm_result.avg_cpu,
          avg_mem_utilization |-> mcm_result.avg_mem,
          avg_cpu_power       |-> mcm_result.avg_cpu_power,
          avg_mem_power       |-> mcm_result.avg_mem_power,
          cpu_energy_usage    |-> mcm_result.cpu_energy_usage,
          mem_energy_usage    |-> mcm_result.mem_energy_usage,
          avg_gpu_power       |-> gpu_result.avg_gpu_power,
          avg_gpu_utilization |-> gpu_result.avg_gpu_utilization,
          gpu_energy_usage    |-> gpu_result.gpu_energy_usage]
    /\ gpu_utilization' = <<>> /\ gpu_power_usage' = <<>>
    /\ pc' = "hooks"
    /\ UNCHANGED <<run, process, orphans, rapl_error_printed, printed, envVars,
                   now, start_time, mcmLocals, mcm_result, gpu_polls, gpu_status,
                   gpu_result, returned, calls, pjVars>>

\* start_measurement, interact, stop_measurement and stop_run only log.
StopRun ==
    /\ pc = "hooks"
    /\ pc' = "populate"
    /\ UNCHANGED <<run, process, orphans, rapl_error_printed, printed, envVars,
                   now, start_time, mcmLocals, mcm_result, gpuLocals, gpu_polls, gpu_status,
                   gpu_result, run_data, returned, calls, pjVars>>

PopulateRunData ==
    /\ pc = "populate"
    /\ returned' = run_data
    /\ pc' = "idle"
    /\ UNCHANGED <<run, process, orphans, rapl_error_printed, printed, envVars,
                   now, start_time, mcmLocals, mcm_result, gpuLocals, gpu_polls, gpu_status,
                   gpu_result, run_data, calls, pjVars>>

Environment == WorkloadExit

Program ==
    \/ StartRun
    \/ McmInitialRead \/ McmLoopCheck \/ McmSampleUtil \/ McmCpuPower
    \/ McmMemPower \/ McmFinalRead \/ McmReduce \/ McmReturn
    \/ GpuLoopCheck \/ GpuPoll \/ GpuReduce \/ MonitorUsageReturn
    \/ StopRun \/ PopulateRunData

Next == Environment \/ Program

Spec == Init /\ [][Next]_vars

\* The steps of monitor_cpu_memory's loop.
McmLoopStep == McmLoopCheck \/ McmSampleUtil \/ McmCpuPower \/ McmMemPower

\* Inside the loop the thread driving the run is never suspended for ever:
\* psutil.cpu_percent(interval=1) and time.sleep(1) return.
FairSpec == Spec /\ WF_vars(McmLoopStep)

(***************************************************************************)
(* SpecReaders: get_cpu_power and get_memory_power called directly, in     *)
(* any order, on a freshly constructed RunnerConfig.                       *)
(***************************************************************************)
InitReaders ==
    /\ InitCommon
    /\ energy_uj \in CounterValues

readerFrame == <<pc, run, process, orphans, rapl_present, load_changes, now,
                 start_time, mcmLocals, mcm_result, gpuLocals, gpu_polls,
                 gpu_status, gpu_result, run_data, returned, pjVars>>

CallGetCpuPower ==
    /\ Len(calls) < MaxCalls
    /\ \E L \in Loads :
         LET t   == ReaderTime("pkg")
             end == [d \in Domains |-> IF rapl_present[d]
                                       THEN Advance(energy_uj[d], d, L, t)
                                       ELSE energy_uj[d]]
             r   == get_cpu_power(rapl_present["pkg"], energy_uj["pkg"],
                                  end["pkg"], rapl_error_printed)
         IN  /\ load' = L
             /\ energy_uj' = end
             /\ rapl_error_printed' = r.flag
             /\ printed' = IF r.warned THEN Emit("rapl_cpu") ELSE printed
             /\ calls' = Append(calls, [reader |-> "get_cpu_power",
                                        ret |-> r.ret, warned |-> r.warned])
    /\ UNCHANGED readerFrame

CallGetMemoryPower ==
    /\ Len(calls) < MaxCalls
    /\ \E L \in Loads :
         LET t   == ReaderTime("dram")
             end == [d \in Domains |-> IF rapl_present[d]
                                       THEN Advance(energy_uj[d], d, L, t)
                                       ELSE energy_uj[d]]
             r   == get_memory_power(rapl_present["dram"], energy_uj["dram"],
                                     end["dram"], rapl_error_printed)
         IN  /\ load' = L
             /\ energy_uj' = end
             /\ rapl_error_printed' = r.flag
             /\ printed' = IF r.warned THEN Emit("rapl_mem") ELSE printed
             /\ calls' = Append(calls, [reader |-> "get_memory_power",
                                        ret |-> r.ret, warned |-> r.warned])
    /\ UNCHANGED readerFrame

NextReaders == CallGetCpuPower \/ CallGetMemoryPower

SpecReaders == InitReaders /\ [][NextReaders]_vars

(***************************************************************************)
(* powerjoular_test: the host drives start_run, start_measurement,         *)
(* interact, stop_measurement, stop_run and populate_run_data, in this     *)
(* order, once per run.                                                    *)
(***************************************************************************)
\* `if time.time() - start_time > 20` in interact.
InteractBudget == 20
\* time.sleep(1) in start_measurement.
WarmUp == 1
\* process.cpu_percent(interval=1) in interact.
SampleInterval == 1

\* Popen.terminate() / Popen.kill(): a live process exits on the signal.
Signalled(p) == IF p = "alive" THEN "zombie" ELSE p

PJTargetExit ==
    /\ target = "alive"
    /\ target' = "zombie"
    /\ UNCHANGED <<pj_pc, pj_run, profiler, pj_now, pj_start_time, events, pjData, llamaVars>>

PJProfilerExit ==
    /\ profiler = "alive"
    /\ profiler' = "zombie"
    /\ UNCHANGED <<pj_pc, pj_run, target, pj_now, pj_start_time, events, pjData, llamaVars>>

PJStartRun ==
    /\ pj_pc = "idle"
    /\ pj_run < MaxPJRuns
    /\ pj_run' = pj_run + 1
    /\ target' = "alive"
    /\ profiler' = "none"
    /\ events' = << <<"launch", "target", "-">> >>
    /\ pj_now' = 0
    /\ pj_start_time' = 0
    /\ run_dir' \in 1..MaxRunDirs
    /\ df' = <<>>
    /\ pj_returned' = <<>>
    /\ pj_pc' = "start_measurement"
    /\ UNCHANGED <<files, run_data_list, csv_log, llamaVars>>

PJStartMeasurement ==
    /\ pj_pc = "start_measurement"
    /\ pj_now' = pj_now + Blocking(WarmUp)
    /\ profiler' = "alive"
    /\ events' = Append(events, <<"launch", "profiler", "-">>)
    /\ pj_pc' = "interact"
    /\ UNCHANGED <<pj_run, target, pj_start_time, pjData, llamaVars>>

PJInteractEnter ==
    /\ pj_pc = "interact"
    /\ pj_start_time' = pj_now
    /\ pj_pc' = "interact_check"
    /\ UNCHANGED <<pj_run, target, profiler, pj_now, events, pjData, llamaVars>>

\* while self.target.poll() is None
PJInteractCheck ==
    /\ pj_pc = "interact_check"
    /\ target' = Polled(target)
    /\ pj_pc' = IF target = "alive" THEN "interact_sample" ELSE "stop_measurement"
    /\ UNCHANGED <<pj_run, profiler, pj_now, pj_start_time, events, pjData, llamaVars>>

\* Mutant: the check fires two sample intervals late.
BudgetExceeded_Late(elapsed) ==
    elapsed > (InteractBudget + 2 * SampleInterval) * TimeResolution

\* if time.time() - start_time > 20
BudgetExceeded(elapsed) == elapsed > InteractBudget * TimeResolution

\* The loop body: one blocking CPU sample, then the 20 s check.
PJInteractSample ==
    /\ pj_pc = "interact_sample"
    /\ pj_now' = pj_now + Blocking(SampleInterval)
    /\ IF BudgetExceeded(pj_now' - pj_start_time)
       THEN /\ target' = Signalled(target)
            /\ events' = Append(events, <<"signal", "target", "SIGTERM">>)
            /\ pj_pc' = "stop_measurement"
       ELSE /\ pj_pc' = "interact_check"
            /\ UNCHANGED <<target, events>>
    /\ UNCHANGED <<pj_run, profiler, pj_start_time, pjData, llamaVars>>

\* os.kill(self.profiler.pid, signal.SIGINT); self.profiler.wait()
PJStopMeasurement ==
    /\ pj_pc = "stop_measurement"
    /\ profiler' = "reaped"
    /\ events' = events \o << <<"signal", "profiler", "SIGINT">>,
                             <<"wait", "profiler", "-">> >>
    /\ pj_pc' = "stop_run"
    /\ UNCHANGED <<pj_run, target, pj_now, pj_start_time, pjData, llamaVars>>

\* Mutant: stop_run kills the workload without waiting for it.
PJStopRun_NoWait ==
    /\ pj_pc = "stop_run"
    /\ target' = Signalled(target)
    /\ events' = Append(events, <<"signal", "target", "SIGKILL">>)
    /\ pj_pc' = "populate"
    /\ UNCHANGED <<pj_run, profiler, pj_now, pj_start_time, pjData, llamaVars>>

\* self.target.kill(); self.target.wait()
PJStopRun ==
    /\ pj_pc = "stop_run"
    /\ target' = "reaped"
    /\ events' = events \o << <<"signal", "target", "SIGKILL">>,
                             <<"wait", "target", "-">> >>
    /\ pj_pc' = "populate"
    /\ UNCHANGED <<pj_run, profiler, pj_now, pj_start_time, pjData, llamaVars>>

(***************************************************************************)
(* populate_run_data and log_run_data_to_csv.  A dict is a sequence of      *)
(* <<key, value>> pairs in insertion order.  A metric value is the int 0    *)
(* of the `else 0` branches, [kind |-> "int", n |-> 0], or a float kept in  *)
(* thousandths, [kind |-> "float", n |-> 12500] for 12.5.                   *)
(***************************************************************************)
OptionalColumns == {"CPU Utilization", "CPU Power", "GPU Utilization", "GPU Power"}

\* Rows a profiler can have written for each column (millionths).
ProfilerRows ==
    { [c \in OptionalColumns |->
         CASE c = "CPU Utilization" -> <<12500000, 50000000>>
           [] c = "CPU Power"       -> <<1500000, 2250000>>
           [] c = "GPU Utilization" -> <<0, 25000000>>
           [] c = "GPU Power"       -> <<10000000, 12000000>>],
      [c \in OptionalColumns |->
         CASE c = "CPU Utilization" -> <<33333000>>
           [] c = "CPU Power"       -> <<3141600>>
           [] c = "GPU Utilization" -> <<99900000>>
           [] c = "GPU Power"       -> <<70200>>] }

\* What pd.read_csv can return: any subset of the optional columns.
ProfilerOutputs ==
    { [c \in S |-> rows[c]] : S \in SUBSET OptionalColumns, rows \in ProfilerRows }

IntValue(n) == [kind |-> "int", n |-> n]
FloatValue(milli) == [kind |-> "float", n |-> milli]

\* round(x, 3) of the numpy float x = a / (RoundScale * b): x is scaled by
\* 1000, rounded to the nearest integer (half to even) and scaled back.
NpRound3(a, b) ==
    LET m   == Abs(a)
        q   == m \div b
        rem == m % b
        up  == IF 2 * rem > b THEN TRUE
               ELSE IF 2 * rem < b THEN FALSE
               ELSE q % 2 = 1
        mag == IF up THEN q + 1 ELSE q
    IN  IF a < 0 THEN -mag ELSE mag

\* round(df[c].mean(), 3) if c in df.columns else 0
ColumnMean(d, c) ==
    IF c \in DOMAIN d
    THEN FloatValue(NpRound3(Sum(d[c]), MicroPerMilli * Len(d[c])))
    ELSE IntValue(0)

\* round(df[c].sum(), 3) if c in df.columns else 0
ColumnSum(d, c) ==
    IF c \in DOMAIN d
    THEN FloatValue(NpRound3(Sum(d[c]), MicroPerMilli))
    ELSE IntValue(0)

\* Mutant: total_gpu_energy is left out of the dict.
PJRunData_DropsKey(d) ==
    << <<"avg_cpu_utilization", ColumnMean(d, "CPU Utilization")>>,
       <<"avg_cpu_power",       ColumnMean(d, "CPU Power")>>,
       <<"total_cpu_energy",    ColumnSum(d, "CPU Power")>>,
       <<"avg_gpu_utilization", ColumnMean(d, "GPU Utilization")>>,
       <<"avg_gpu_power",       ColumnMean(d, "GPU Power")>> >>

\* Mutant: avg_gpu_power indexes its column without the membership test;
\* the KeyError of a missing column is shown as a value of kind "KeyError".
PJRunData_Unguarded(d) ==
    << <<"avg_cpu_utilization", ColumnMean(d, "CPU Utilization")>>,
       <<"avg_cpu_power",       ColumnMean(d, "CPU Power")>>,
       <<"total_cpu_energy",    ColumnSum(d, "CPU Power")>>,
       <<"avg_gpu_utilization", ColumnMean(d, "GPU Utilization")>>,
       <<"avg_gpu_power",       IF "GPU Power" \in DOMAIN d
                                THEN ColumnMean(d, "GPU Power")
                                ELSE [kind |-> "KeyError", n |-> 0]>>,
       <<"total_gpu_energy",    ColumnSum(d, "GPU Power")>> >>

\* The run_data dict populate_run_data builds from the data frame.
PJRunData(d) ==
    << <<"avg_cpu_utilization", ColumnMean(d, "CPU Utilization")>>,
       <<"avg_cpu_power",       ColumnMean(d, "CPU Power")>>,
       <<"total_cpu_energy",    ColumnSum(d, "CPU Power")>>,
       <<"avg_gpu_utilization", ColumnMean(d, "GPU Utilization")>>,
       <<"avg_gpu_power",       ColumnMean(d, "GPU Power")>>,
       <<"total_gpu_energy",    ColumnSum(d, "GPU Power")>> >>

Keys(dict) == [i \in 1..Len(dict) |-> dict[i][1]]
Values(dict) == [i \in 1..Len(dict) |-> dict[i][2]]

\* The fractional digits of a float with `milli` thousandths, as repr()
\* prints them: no trailing zero beyond the first digit.
FractionDigits(milli) ==
    LET d1 == milli \div 100
        d2 == (milli \div 10) % 10
        d3 == milli % 10
    IN  ToString(d1) \o
        (IF d2 = 0 /\ d3 = 0 THEN ""
         ELSE ToString(d2) \o (IF d3 = 0 THEN "" ELSE ToString(d3)))

\* str(value)
Str(v) ==
    IF v.kind = "int" THEN ToString(v.n)
    ELSE (IF v.n < 0 THEN "-" ELSE "") \o
         ToString(Abs(v.n) \div RoundScale) \o "." \o
         FractionDigits(Abs(v.n) % RoundScale)

\* ",".join(strings)
RECURSIVE Join(_)
Join(strings) ==
    IF strings = <<>> THEN ""
    ELSE IF Len(strings) = 1 THEN strings[1]
    ELSE strings[1] \o "," \o Join(Tail(strings))

HeaderLine(dict) == Join(Keys(dict))
ValueLine(dict) == Join([i \in 1..Len(dict) |-> Str(Values(dict)[i])])

\* Mutant: the header is written by every call.
log_run_data_to_csv_AlwaysHeader(file, dict) ==
    [exists |-> TRUE,
     lines  |-> file.lines \o <<HeaderLine(dict), ValueLine(dict)>>]

\* log_run_data_to_csv: a file is the sequence of its lines, each written
\* with its "\n"; the file after the call.
log_run_data_to_csv(file, dict) ==
    LET created == IF ~file.exists THEN <<HeaderLine(dict)>> ELSE file.lines
    IN  [exists |-> TRUE, lines |-> Append(created, ValueLine(dict))]

\* populate_run_data: pd.read_csv either returns a data frame or raises
\* (no such file, empty file).
PJPopulateRunData ==
    /\ pj_pc = "populate"
    /\ \/ \E d \in ProfilerOutputs :
            LET dict == PJRunData(d)
            IN  /\ df' = d
                /\ run_data_list' = Append(run_data_list, dict)
                /\ files' = [files EXCEPT
                               ![run_dir] = log_run_data_to_csv(@, dict)]
                /\ pj_returned' = dict
                /\ pj_pc' = "idle"
       \/ /\ pj_pc' = "raised"
          /\ UNCHANGED <<df, run_data_list, files, pj_returned>>
    /\ UNCHANGED <<pj_run, target, profiler, pj_now, pj_start_time, events,
                   run_dir, csv_log, llamaVars>>

NextPJ ==
    \/ PJTargetExit \/ PJProfilerExit
    \/ PJStartRun \/ PJStartMeasurement
    \/ PJInteractEnter \/ PJInteractCheck \/ PJInteractSample
    \/ PJStopMeasurement \/ PJStopRun \/ PJPopulateRunData

\* The energy interface plays no part in this variant.
InitPJ == Init /\ \A d \in Domains : ~rapl_present[d]

SpecPJ == InitPJ /\ [][NextPJ]_vars

\* The steps of interact's loop.
PJInteractStep == PJInteractCheck \/ PJInteractSample

\* process.cpu_percent(interval=1) returns: inside interact the thread
\* driving the run is never suspended for ever.
FairSpecPJ == SpecPJ /\ WF_vars(PJInteractStep)

(***************************************************************************)
(* SpecCsv: log_run_data_to_csv called directly, any number of times, on    *)
(* one path that does not exist at first.                                  *)
(***************************************************************************)
\* The dicts the calls are made with.
CsvRunData ==
    {PJRunData(d) : d \in {o \in ProfilerOutputs :
                              DOMAIN o \in {{}, {"CPU Power"}, OptionalColumns}}}
    \cup { <<>>,
           << <<"energy", FloatValue(2500)>> >>,
           << <<"run", IntValue(7)>>, <<"energy", FloatValue(-62)>> >> }

InitCsv == InitPJ

CallLogRunDataToCsv ==
    /\ Len(csv_log) < MaxCsvCalls
    /\ \E dict \in CsvRunData :
         /\ files' = [files EXCEPT ![run_dir] = log_run_data_to_csv(@, dict)]
         /\ csv_log' = Append(csv_log, dict)
    /\ UNCHANGED <<pj_pc, pj_run, target, profiler, pj_now, pj_start_time,
                   events, run_dir, df, pj_returned, run_data_list, llamaVars>>

NextCsv == CallLogRunDataToCsv

SpecCsv == InitCsv /\ [][NextCsv]_vars

(***************************************************************************)
(* Claims.                                                                 *)
(***************************************************************************)
McmLoop == {"mcm_check", "mcm_cpu", "mcm_cpu_power", "mcm_mem_power"}

\* C1 (FairSpec): the condition check of monitor_cpu_memory's loop starts a
\* tick exactly when the workload is alive and fewer than 10 s have elapsed
\* since the loop began, and otherwise leaves the loop; so no tick starts
\* once the workload has exited or the budget is used up; and the loop is
\* always left, whether or not the workload ever exits.
C1_LoopExit ==
    /\ [][(pc = "mcm_check" /\ pc' # pc) =>
            /\ pc' \in {"mcm_cpu", "mcm_final"}
            /\ pc' = "mcm_cpu" <=>
                 (process = "alive" /\ now - start_time < Budget * TimeResolution)]_vars
    /\ [][(process # "alive" \/ now - start_time >= Budget * TimeResolution) =>
            ~(pc # "mcm_cpu" /\ pc' = "mcm_cpu")]_vars
    /\ (pc \in McmLoop) ~> (pc = "mcm_final")

\* C1 witness: the loop was left after at least one tick because the
\* workload had exited, with budget to spare.
C1_Witness ==
    /\ pc = "mcm_final"
    /\ process # "alive"
    /\ cpu_usage # <<>>
    /\ now - start_time < (Budget - Interval) * TimeResolution

\* C2 (stated as claimed): whenever a tick of the sampling loop has
\* completed, every reader of the run, the GPU query included, has been
\* polled once per tick.
C2_EveryTickPollsAllReaders ==
    pc = "mcm_check" =>
        /\ Len(memory_usage) = Len(cpu_usage)
        /\ Len(cpu_power_usage) = Len(cpu_usage)
        /\ Len(mem_power_usage) = Len(cpu_usage)
        /\ gpu_polls = Len(cpu_usage)

\* C3 (stated as claimed): once stop_run has returned, the workload of the
\* run has exited and been reaped, and no workload of an earlier run is
\* still running when a run starts.
C3_WorkloadReaped ==
    /\ (pc = "populate" \/ (pc = "idle" /\ run > 0)) => process = "reaped"
    /\ orphans = 0

\* C4 (SpecPJ, stated as claimed): the profiler is launched only after the
\* workload, and every terminate or kill signal sent to the workload comes
\* after the profiler was sent its interrupt signal.
C4_ProfilerStoppedBeforeWorkload ==
    /\ \A i \in 1..Len(events) :
         events[i] = <<"launch", "profiler", "-">> =>
            \E j \in 1..(i - 1) : events[j] = <<"launch", "target", "-">>
    /\ \A i \in 1..Len(events) :
         (events[i][1] = "signal" /\ events[i][2] = "target") =>
            \E j \in 1..(i - 1) : events[j] = <<"signal", "profiler", "SIGINT">>

\* C5 (SpecReaders): with a reader's interface file absent, over any
\* sequence of calls of that one reader the first call prints the warning,
\* no later call prints it, the warning is printed once in total, and every
\* call returns 0.0.
ReaderDomain == [get_cpu_power |-> "pkg", get_memory_power |-> "dram"]
ReaderMessage == [get_cpu_power |-> "rapl_cpu", get_memory_power |-> "rapl_mem"]

OnlyCallsOf(r) == calls # <<>> /\ \A i \in 1..Len(calls) : calls[i].reader = r

C5_WarnOnceSameReader ==
    \A r \in Readers :
        (OnlyCallsOf(r) /\ ~rapl_present[ReaderDomain[r]]) =>
            /\ calls[1].warned
            /\ \A i \in 2..Len(calls) : ~calls[i].warned
            /\ \A i \in 1..Len(calls) : calls[i].ret = 0
            /\ printed[ReaderMessage[r]] = 1
            /\ \A m \in Messages \ {ReaderMessage[r]} : printed[m] = 0

C5_Witness ==
    /\ OnlyCallsOf("get_cpu_power")
    /\ ~rapl_present["pkg"]
    /\ Len(calls) >= 2
    /\ printed["rapl_cpu"] = 1

\* C6 (stated as claimed): with both interface files absent, once each of
\* get_cpu_power and get_memory_power has been called at least once, the
\* package-domain warning has been printed exactly once and the
\* memory-domain warning has been printed exactly once.
C6_WarnOncePerDomain ==
    ( /\ \A d \in Domains : ~rapl_present[d]
      /\ \A r \in Readers : \E i \in 1..Len(calls) : calls[i].reader = r )
    => (printed["rapl_cpu"] = 1 /\ printed["rapl_mem"] = 1)

\* C7: a metric reduced from an empty sample series is 0, and reducing an
\* empty series raises nothing (monitor_cpu_memory and monitor_gpu both
\* reach their return).
C7_EmptySeriesReduceToZero ==
    /\ pc = "mcm_return" =>
         /\ cpu_usage = <<>> => mcm_result.avg_cpu = 0
         /\ memory_usage = <<>> => mcm_result.avg_mem = 0
         /\ cpu_power_usage = <<>> => mcm_result.avg_cpu_power = 0
         /\ mem_power_usage = <<>> => mcm_result.avg_mem_power = 0
    /\ pc = "gpu_return" =>
         /\ gpu_power_usage = <<>> =>
              (gpu_result.avg_gpu_power = 0 /\ gpu_result.gpu_energy_usage = 0)
         /\ gpu_utilization = <<>> => gpu_result.avg_gpu_utilization = 0
    /\ pc = "raised" => gpu_status = "malformed"

\* C7 witness: a run whose workload had exited before the first condition
\* check, so that neither loop ran a tick, reaches monitor_gpu's return.
C7_Witness ==
    /\ pc = "gpu_return"
    /\ gpu_polls = 0
    /\ gpu_power_usage = <<>> /\ gpu_utilization = <<>>
    /\ mcm_result.avg_cpu = 0 /\ mcm_result.avg_cpu_power = 0
    /\ gpu_result = ZeroGpu

\* C8 (stated as claimed): a counter that wrapped never yields a negative
\* power sample or a negative energy metric.
C8_NoNegativeEnergy ==
    /\ \A i \in 1..Len(cpu_power_usage) : cpu_power_usage[i] >= 0
    /\ \A i \in 1..Len(mem_power_usage) : mem_power_usage[i] >= 0
    /\ mcm_result.cpu_energy_usage >= 0
    /\ mcm_result.mem_energy_usage >= 0
    /\ mcm_result.avg_cpu_power >= 0
    /\ mcm_result.avg_mem_power >= 0

GpuFailed == gpu_status \in {"not_found", "exit_nonzero"}

\* C9: when a poll finds the GPU query tool absent or failing, monitor_gpu
\* returns 0.0 for its three metrics whatever earlier polls collected,
\* nothing is raised, and the run's record carries the CPU/memory metrics
\* monitor_cpu_memory returned.
C9_GpuFailureGivesZeros ==
    GpuFailed =>
        /\ pc \in {"gpu_return", "hooks", "populate", "idle"}
        /\ gpu_result = ZeroGpu
        /\ pc \in {"hooks", "populate", "idle"} =>
             /\ run_data.avg_gpu_power = 0
             /\ run_data.avg_gpu_utilization = 0
             /\ run_data.gpu_energy_usage = 0
             /\ run_data.avg_cpu_utilization = mcm_result.avg_cpu
             /\ run_data.avg_mem_utilization = mcm_result.avg_mem
             /\ run_data.avg_cpu_power = mcm_result.avg_cpu_power
             /\ run_data.avg_mem_power = mcm_result.avg_mem_power
             /\ run_data.cpu_energy_usage = mcm_result.cpu_energy_usage
             /\ run_data.mem_energy_usage = mcm_result.mem_energy_usage

\* C9 witness: a poll failed after earlier polls had collected samples, and
\* the record of the run holds non-zero CPU metrics.
C9_Witness ==
    /\ pc = "hooks"
    /\ GpuFailed
    /\ gpu_polls >= 2
    /\ run_data.avg_cpu_utilization > 0
    /\ run_data.gpu_energy_usage = 0

\* C10: with both counters readable and start <= end for a domain, the
\* energy reported for the domain is the microjoule delta of the two reads
\* rounded to whole millijoules, whatever the power samples and the number
\* of ticks; a delta of 2,500,000 uJ is reported as 2.5.
C10_EnergyIsCounterDelta ==
    /\ Round3(3500000 - 1000000, MicroPerMilli) = 2500
    /\ (pc = "mcm_return" /\ \A d \in Domains : rapl_present[d]) =>
         /\ initial_cpu_energy <= final_cpu_energy =>
              Abs(mcm_result.cpu_energy_usage * MicroPerMilli
                  - (final_cpu_energy - initial_cpu_energy)) * 2 <= MicroPerMilli
         /\ initial_mem_energy <= final_mem_energy =>
              Abs(mcm_result.mem_energy_usage * MicroPerMilli
                  - (final_mem_energy - initial_mem_energy)) * 2 <= MicroPerMilli

\* C10 witness: both counters advanced without wrapping over a window of at
\* least two ticks, and the package energy is not the sum of the package
\* power samples.
C10_Witness ==
    /\ pc = "mcm_return"
    /\ \A d \in Domains : rapl_present[d]
    /\ initial_cpu_energy < final_cpu_energy
    /\ initial_mem_energy < final_mem_energy
    /\ Len(cpu_power_usage) >= 2
    /\ mcm_result.cpu_energy_usage > 0
    /\ mcm_result.cpu_energy_usage * MicroPerMilli # Sum(cpu_power_usage)

\* C11 (stated as claimed): the two energy domains are independent.  A
\* domain whose counter is readable has its own counter value recorded at
\* the start and at the end of the window, and its energy is the rounded
\* delta of these two values, whether or not the other domain is readable.
C11_DomainsIndependent ==
    /\ (pc = "mcm_check" /\ cpu_usage = <<>>) =>
         /\ rapl_present["pkg"] => initial_cpu_energy = energy_uj["pkg"]
         /\ rapl_present["dram"] => initial_mem_energy = energy_uj["dram"]
    /\ pc = "mcm_reduce" =>
         /\ rapl_present["pkg"] => final_cpu_energy = energy_uj["pkg"]
         /\ rapl_present["dram"] => final_mem_energy = energy_uj["dram"]
    /\ pc = "mcm_return" =>
         /\ (rapl_present["pkg"] /\ initial_cpu_energy <= final_cpu_energy) =>
              Abs(mcm_result.cpu_energy_usage * MicroPerMilli
                  - (final_cpu_energy - initial_cpu_energy)) * 2 <= MicroPerMilli
         /\ (rapl_present["dram"] /\ initial_mem_energy <= final_mem_energy) =>
              Abs(mcm_result.mem_energy_usage * MicroPerMilli
                  - (final_mem_energy - initial_mem_energy)) * 2 <= MicroPerMilli

GpuAllPollsOk == gpu_status \in {"none", "ok"}

\* C12: when no poll fails, gpu_energy_usage is the sum of the GPU power
\* samples of the run divided by 1000 and rounded to 3 digits (samples
\* [100.0, 150.0] give 0.25), every successful poll having appended one
\* power sample per output line; no energy counter enters the value.
C12_GpuEnergyIsSampleSum ==
    /\ [](GpuEnergy3(<<100000000, 150000000>>) = 250)
    /\ []((pc = "gpu_return" /\ GpuAllPollsOk) =>
            Abs(gpu_result.gpu_energy_usage * MicroPerMilli * GpuEnergyDivisor
                - Sum(gpu_power_usage)) * 2 <= MicroPerMilli * GpuEnergyDivisor)
    /\ [][(pc = "gpu_poll" /\ gpu_polls' # gpu_polls /\ gpu_status' = "ok") =>
            /\ gpu_power_usage' = gpu_power_usage \o Column(GpuOutput[load'], 1)
            /\ Len(gpu_power_usage') = Len(gpu_power_usage) + Len(GpuOutput[load'])]_vars

\* C12 witness: two or more successful polls collected at least three power
\* samples, and the energy reported is their sum / 1000, which differs from
\* both energy-counter metrics of the run.
C12_Witness ==
    /\ pc = "gpu_return"
    /\ gpu_status = "ok"
    /\ gpu_polls >= 2
    /\ Len(gpu_power_usage) >= 3
    /\ gpu_result.gpu_energy_usage * GpuEnergyDivisor * MicroPerMilli = Sum(gpu_power_usage)
    /\ gpu_result.gpu_energy_usage > 0
    /\ gpu_result.gpu_energy_usage # mcm_result.cpu_energy_usage
    /\ gpu_result.gpu_energy_usage # mcm_result.mem_energy_usage

\* C16 (stated as claimed): over the runs of one process every degraded
\* path warns once: no message, the GPU fallback messages included, is
\* printed a second time.
C16_SilentAfterFirstWarning ==
    \A m \in Messages : printed[m] <= 1

\* C19: each non-empty utilisation or power series is reduced to its
\* arithmetic mean rounded to 3 digits (power samples [10.0, 12.0, 14.0]
\* give 12.0): the metric lies within half a thousandth of sum / length.
IsMean3(metric, series) ==
    series # <<>> =>
        Abs(metric * MicroPerMilli * Len(series) - Sum(series)) * 2
            <= MicroPerMilli * Len(series)

C19_SeriesReduceToMean ==
    /\ Mean3(<<10000000, 12000000, 14000000>>) = 12000
    /\ pc = "mcm_return" =>
         /\ IsMean3(mcm_result.avg_cpu, cpu_usage)
         /\ IsMean3(mcm_result.avg_mem, memory_usage)
         /\ IsMean3(mcm_result.avg_cpu_power, cpu_power_usage)
         /\ IsMean3(mcm_result.avg_mem_power, mem_power_usage)
    /\ (pc = "gpu_return" /\ GpuAllPollsOk) =>
         /\ IsMean3(gpu_result.avg_gpu_power, gpu_power_usage)
         /\ IsMean3(gpu_result.avg_gpu_utilization, gpu_utilization)

\* C19 witness: a window of two ticks at different loads, whose mean is
\* neither sample; the package energy of the window is not the mean of the
\* package power samples.
C19_Witness ==
    /\ pc = "mcm_return"
    /\ Len(cpu_usage) >= 2
    /\ cpu_usage[1] # cpu_usage[2]
    /\ \A i \in 1..Len(cpu_usage) : mcm_result.avg_cpu * MicroPerMilli # cpu_usage[i]
    /\ \A d \in Domains : rapl_present[d]
    /\ mcm_result.avg_cpu_power > 0
    /\ mcm_result.cpu_energy_usage # mcm_result.avg_cpu_power

McmPhase == McmLoop \cup {"mcm_init", "mcm_final", "mcm_reduce", "mcm_return"}

\* C20: in a run the GPU query tool is invoked only after the CPU/memory
\* loop has ended, and monitor_gpu's loop has a 10 s budget counted from its
\* own start; a workload that has exited by the end of the CPU/memory loop
\* gets zero GPU ticks and three GPU metrics of 0; every GPU poll of a run
\* ends more than 10 s after the workload was started.
C20_GpuAfterCpuOwnBudget ==
    /\ [](pc \in McmPhase => gpu_polls = 0)
    /\ [][(pc = "mcm_return" /\ pc' = "gpu_check") => start_time' = now']_vars
    /\ [][(pc = "gpu_check" /\ pc' # pc) =>
            /\ pc' \in {"gpu_poll", "gpu_reduce"}
            /\ pc' = "gpu_poll" <=>
                 (process = "alive" /\ now - start_time < Budget * TimeResolution)
            /\ (gpu_polls = 0 /\ process = "alive") => pc' = "gpu_poll"]_vars
    /\ \A r \in 1..MaxRuns :
         []((run = r /\ pc \in McmPhase \ McmLoop /\ pc # "mcm_init"
                /\ process # "alive") =>
              [](run = r =>
                   /\ gpu_polls = 0
                   /\ pc \notin {"gpu_poll", "raised"}
                   /\ pc \in {"gpu_return", "hooks", "populate", "idle"} =>
                        gpu_result = ZeroGpu))
    /\ [](gpu_polls > 0 => now > Budget * TimeResolution)

\* C20 witness: the workload outlived both loops: monitor_gpu's loop ended on
\* its own budget, with the workload alive, more than 20 s after the start.
C20_Witness ==
    /\ pc = "gpu_reduce"
    /\ process = "alive"
    /\ gpu_polls >= 2
    /\ now - start_time >= Budget * TimeResolution
    /\ now > 2 * Budget * TimeResolution

CsvFile == files[run_dir]

\* C13 (SpecCsv): after n >= 1 calls on a path that did not exist, the file
\* is one header line, the comma-joined keys of the first call's dict,
\* followed by the n value lines in call order; every call after the first
\* appends one line and changes nothing before it.
C13_CsvHeaderOnceRowPerCall ==
    /\ [](csv_log = <<>> => ~CsvFile.exists)
    /\ [](csv_log # <<>> =>
            /\ CsvFile.exists
            /\ Len(CsvFile.lines) = 1 + Len(csv_log)
            /\ CsvFile.lines[1] = Join(Keys(csv_log[1]))
            /\ \A i \in 1..Len(csv_log) :
                 CsvFile.lines[i + 1] =
                     Join([k \in 1..Len(csv_log[i]) |-> Str(csv_log[i][k][2])]))
    /\ [][(csv_log # <<>> /\ csv_log' # csv_log) =>
            /\ Len(files'[run_dir].lines) = Len(CsvFile.lines) + 1
            /\ SubSeq(files'[run_dir].lines, 1, Len(CsvFile.lines)) = CsvFile.lines]_vars

\* C13 witness: three calls, the later ones with dicts whose keys differ
\* from the first call's.
C13_Witness ==
    /\ Len(csv_log) = 3
    /\ Keys(csv_log[2]) # Keys(csv_log[1])
    /\ Keys(csv_log[3]) # Keys(csv_log[1])
    /\ Len(CsvFile.lines) = 4
    /\ CsvFile.lines[1] = "run,energy"
    /\ CsvFile.lines[2] = "7,-0.062"

RunCompleted == pc = "idle" /\ run > 0

\* The key sequences of the dicts populate_run_data of powerjoular_test can
\* build, over all profiler outputs.
PJRecordKeys == {Keys(PJRunData(d)) : d \in ProfilerOutputs}

\* C14: the record populate_run_data hands to the host for a completed run
\* has exactly the keys declared as data_columns, in llama_power on every
\* path of the run, in powerjoular_test for every profiler output.
C14_RecordHasDeclaredKeys ==
    /\ RunCompleted => DOMAIN returned = DataColumns
    /\ PJRecordKeys = {PJDataColumns}

\* C14 witness: a completed llama_power run on the degraded paths: energy
\* interface absent and GPU tool failing.
C14_Witness ==
    /\ RunCompleted
    /\ \A d \in Domains : ~rapl_present[d]
    /\ GpuFailed
    /\ DOMAIN returned = DataColumns
    /\ returned.cpu_energy_usage = 0
    /\ returned.avg_cpu_utilization > 0

PJInteract == {"interact_check", "interact_sample"}

Terminate == <<"signal", "target", "SIGTERM">>

TerminateCount == Cardinality({i \in 1..Len(events) : events[i] = Terminate})

\* C15 (FairSpecPJ): interact's loop always terminates; it is left at the
\* first check that finds the workload exited, without a terminate, or after
\* the first sample at whose end more than 20 s have elapsed, with one
\* terminate and no further sample; it never runs longer than 20 s plus one
\* sample interval.
C15_InteractTerminates ==
    /\ (pj_pc \in PJInteract) ~> (pj_pc = "stop_measurement")
    /\ [][(pj_pc = "interact_check" /\ pj_pc' # pj_pc) =>
            /\ events' = events
            /\ IF target = "alive"
               THEN pj_pc' = "interact_sample"
               ELSE pj_pc' = "stop_measurement"]_vars
    /\ [][(pj_pc = "interact_sample" /\ pj_pc' # pj_pc) =>
            IF pj_now' - pj_start_time > InteractBudget * TimeResolution
            THEN /\ pj_pc' = "stop_measurement"
                 /\ events' = Append(events, Terminate)
            ELSE /\ pj_pc' = "interact_check"
                 /\ events' = events]_vars
    /\ [](TerminateCount <= 1)
    /\ [](pj_pc \in PJInteract \cup {"stop_measurement"} =>
            pj_now - pj_start_time
                <= InteractBudget * TimeResolution + Blocking(SampleInterval))

\* C15 witness: the loop was left on the budget path, terminate sent once.
C15_Witness ==
    /\ pj_pc = "stop_measurement"
    /\ TerminateCount = 1
    /\ events[Len(events)] = Terminate
    /\ pj_now - pj_start_time > InteractBudget * TimeResolution

StopRunReturned ==
    pj_pc \in {"populate", "raised"} \/ (pj_pc = "idle" /\ pj_run > 0)

\* C17 (SpecPJ): once stop_run has returned, every signal the supervisor
\* sent to a process in the run was followed by a wait on that process, and
\* both the workload and the profiler have exited and been reaped.
C17_SignalsFollowedByWait ==
    StopRunReturned =>
        /\ \A i \in 1..Len(events) :
             events[i][1] = "signal" =>
                \E j \in (i + 1)..Len(events) :
                    events[j] = <<"wait", events[i][2], "-">>
        /\ target = "reaped"
        /\ profiler = "reaped"

\* C17 witness: stop_run has returned on the timeout path.
C17_Witness ==
    /\ pj_pc = "populate"
    /\ TerminateCount = 1
    /\ target = "reaped" /\ profiler = "reaped"

\* The column each metric of powerjoular_test is derived from.
MetricColumn ==
    [avg_cpu_utilization |-> "CPU Utilization",
     avg_cpu_power       |-> "CPU Power",
     total_cpu_energy    |-> "CPU Power",
     avg_gpu_utilization |-> "GPU Utilization",
     avg_gpu_power       |-> "GPU Power",
     total_gpu_energy    |-> "GPU Power"]

SumMetrics == {"total_cpu_energy", "total_gpu_energy"}

PJRunCompleted == pj_pc = "idle" /\ pj_run > 0

\* C18 (SpecPJ): whatever subset of the four optional columns is missing
\* from the profiler output, populate_run_data returns; a metric of a
\* missing column is 0, and a metric of a present column is the rounded
\* mean (or, for the energies, the rounded sum) of that column.
C18_MissingColumnsDefaultToZero ==
    PJRunCompleted =>
        /\ Len(pj_returned) = Len(PJDataColumns)
        /\ \A i \in 1..Len(pj_returned) :
             LET key == pj_returned[i][1]
                 v   == pj_returned[i][2]
                 col == MetricColumn[key]
             IN  IF col \notin DOMAIN df
                 THEN v.kind \in {"int", "float"} /\ v.n = 0
                 ELSE /\ v.kind = "float"
                      /\ IF key \in SumMetrics
                         THEN Abs(v.n * MicroPerMilli - Sum(df[col])) * 2
                                  <= MicroPerMilli
                         ELSE Abs(v.n * MicroPerMilli * Len(df[col]) - Sum(df[col])) * 2
                                  <= MicroPerMilli * Len(df[col])

\* C18 witness: a run whose profiler output has the CPU Power column only.
C18_Witness ==
    /\ PJRunCompleted
    /\ DOMAIN df = {"CPU Power"}
    /\ pj_returned[2] = <<"avg_cpu_power", FloatValue(1875)>>
    /\ pj_returned[3] = <<"total_cpu_energy", FloatValue(3750)>>
    /\ pj_returned[5] = <<"avg_gpu_power", IntValue(0)>>
    /\ pj_returned[6] = <<"total_gpu_energy", IntValue(0)>>

McmSeriesLengths ==
    <<Len(cpu_usage), Len(memory_usage), Len(cpu_power_usage), Len(mem_power_usage)>>

\* C21: the four series of monitor_cpu_memory are empty when its loop
\* begins, every tick appends exactly one sample to each of them, an
\* unavailable energy reader contributing the sample 0.0, so that between
\* ticks the four lengths are equal (the number of ticks so far); and
\* while monitor_gpu runs, between polls and at its reduction, the GPU power
\* and utilisation series have equal length.
C21_SeriesLengthsEqualTicks ==
    /\ [][(pc = "mcm_init" /\ pc' = "mcm_check") =>
            McmSeriesLengths' = <<0, 0, 0, 0>>]_vars
    /\ [][(pc = "mcm_check" /\ pc' # pc) =>
            McmSeriesLengths' = McmSeriesLengths]_vars
    /\ [][(pc = "mcm_cpu" /\ pc' # pc) =>
            /\ pc' = "mcm_cpu_power"
            /\ McmSeriesLengths' =
                 <<Len(cpu_usage) + 1, Len(memory_usage) + 1,
                   Len(cpu_power_usage), Len(mem_power_usage)>>]_vars
    /\ [][(pc = "mcm_cpu_power" /\ pc' # pc) =>
            /\ pc' = "mcm_mem_power"
            /\ McmSeriesLengths' =
                 <<Len(cpu_usage), Len(memory_usage),
                   Len(cpu_power_usage) + 1, Len(mem_power_usage)>>
            /\ ~rapl_present["pkg"] =>
                 cpu_power_usage' = Append(cpu_power_usage, 0)]_vars
    /\ [][(pc = "mcm_mem_power" /\ pc' # pc) =>
            /\ pc' = "mcm_check"
            /\ McmSeriesLengths' =
                 <<Len(cpu_usage), Len(memory_usage),
                   Len(cpu_power_usage), Len(mem_power_usage) + 1>>
            /\ ~rapl_present["dram"] =>
                 mem_power_usage' = Append(mem_power_usage, 0)]_vars
    /\ [](pc \in {"mcm_check", "mcm_final", "mcm_reduce", "mcm_return"} =>
            \A i \in 1..4 : McmSeriesLengths[i] = Len(cpu_usage))
    /\ [](pc \in {"gpu_check", "gpu_poll", "gpu_reduce", "gpu_return"} =>
            Len(gpu_power_usage) = Len(gpu_utilization))

\* C21 witness: two ticks completed with the package file absent and the
\* memory file present; the package power series holds two 0.0 samples.
C21_Witness ==
    /\ pc = "mcm_check"
    /\ ~rapl_present["pkg"] /\ rapl_present["dram"]
    /\ McmSeriesLengths = <<2, 2, 2, 2>>
    /\ cpu_power_usage = <<0, 0>>
    /\ mem_power_usage[1] > 0

====
